---- MODULE Spec2Model ----
(***************************************************************************)
(* Model of the UnlistedSync translator: the App component's translation   *)
(* pipeline (src/App.tsx), the streaming translation source                *)
(* (src/services/geminiService.ts) and the localStorage-backed storage     *)
(* service (src/App.tsx, lines 629-667).                                   *)
(*                                                                         *)
(* Texts are sequences of one-character strings.  JavaScript runs each     *)
(* handler to its next await without interruption, so every action below   *)
(* is one such uninterrupted piece together with the React effects that    *)
(* its state updates trigger.                                              *)
(***************************************************************************)
EXTENDS Integers, Sequences, FiniteSets, TLC

VARIABLES
  inputText,    \* useState('')  App.tsx:263
  outputText,   \* useState('')  App.tsx:264
  direction,    \* useState('HI_TO_EN')  App.tsx:265
  status,       \* useState(TranslationStatus.IDLE)  App.tsx:266
  history,      \* useState([])  App.tsx:267
  toasts,       \* useState([])  App.tsx:269, as the set of toasts on screen
  scripts,      \* useState([])  App.tsx:274
  storage,      \* localStorage under DATA_KEY: <<>> (no item) or <<text>>
  runs,         \* the handleTranslate invocations of this page load
  mounted,      \* the mount effect (App.tsx:280) has run
  crashed,      \* an effect threw and React unmounted the tree
  storageFull,  \* localStorage.setItem throws (quota exceeded)
  nextId,       \* source of generateId / Date.now values
  started,      \* handleTranslate runs that passed validation, ever
  remoteCalls,  \* ai.models.generateContentStream calls, ever
  outBy,        \* index in runs of the run that wrote outputText last, else 0
  threw,        \* where the latest failed storage write threw, or "none"
  arg,          \* the last direct storageService call and its argument
  currentScript \* useState(null)  App.tsx:275: <<>> (null) or <<script>>

vars == <<inputText, outputText, direction, status, history, toasts, scripts,
          storage, runs, mounted, crashed, storageFull, nextId, started,
          remoteCalls, outBy, threw, arg, currentScript>>

---------------------------------------------------------------------------
(* Bounds and program constants *)

HistoryCap == 50

MaxStarts == 2

MaxChunks == 2

MaxScripts == 2

\* What the user can type into the textarea: empty, whitespace only, non-blank.
Typed == {<<>>, <<" ">>, <<"a">>}

\* The responses considered: the k-th chunk that carries text carries the
\* k-th letter, and any number of chunks without text come in between.
Letters == <<"x", "y", "z">>

FragmentText(k) == <<Letters[((k - 1) % Len(Letters)) + 1]>>

\* The chunk.text values the next chunk of a response can carry after
\* `yielded`; <<>> is a chunk whose text is empty (falsy).
ChunkTexts(yielded) == {<<>>, FragmentText(Len(yielded) + 1)}

---------------------------------------------------------------------------
(* Pure helpers *)

RECURSIVE TrimStart(_)
TrimStart(s) ==
  IF s = <<>> THEN s
  ELSE IF Head(s) = " " THEN TrimStart(Tail(s)) ELSE s

RECURSIVE TrimEnd(_)
TrimEnd(s) ==
  IF s = <<>> THEN s
  ELSE IF s[Len(s)] = " " THEN TrimEnd(SubSeq(s, 1, Len(s) - 1)) ELSE s

\* String.prototype.trim
Trim(s) == TrimEnd(TrimStart(s))

\* A mutation of the validation: only the empty text is refused.
FailsValidationEmptyOnly(text) == text = <<>>

\* !inputText.trim()   (App.tsx:314)
FailsValidation(text) == Trim(text) = <<>>

\* !text || text.trim() === ""   (geminiService.ts:36)
SourceRejects(text) == text = <<>> \/ Trim(text) = <<>>

\* Array.prototype.slice(0, n)
SliceFromStart(s, n) == SubSeq(s, 1, IF Len(s) < n THEN Len(s) ELSE n)

RECURSIVE Concat(_)
\* The concatenation of a sequence of fragments, first to last.
Concat(fs) == IF fs = <<>> THEN <<>> ELSE Head(fs) \o Concat(Tail(fs))

Ids(list) == {list[i].id : i \in DOMAIN list}

ValidationToast == [message |-> "Please enter text", type |-> "error"]

FailureToast == [message |-> "Translation failed", type |-> "error"]

---------------------------------------------------------------------------
(* storageService and the JSON text it keeps in localStorage *)

\* The order in which the properties of the data object are written.
KeyOrder == <<"scripts", "history">>

\* A mutation of the serialisation: members holding an empty array are left
\* out of the text.
JsonStringifyDroppingEmpty(obj) ==
  LET keys == SelectSeq(KeyOrder, LAMBDA k : k \in DOMAIN obj /\ obj[k] # <<>>)
  IN  [i \in 1..Len(keys) |-> <<keys[i], obj[keys[i]]>>]

\* JSON.stringify of a data object: its members, in property order.
JsonStringify(obj) ==
  LET keys == SelectSeq(KeyOrder, LAMBDA k : k \in DOMAIN obj)
  IN  [i \in 1..Len(keys) |-> <<keys[i], obj[keys[i]]>>]

\* JSON.parse of such a text.
JsonParse(text) ==
  [k \in {text[i][1] : i \in DOMAIN text} |->
     text[CHOOSE i \in DOMAIN text : text[i][1] = k][2]]

\* storageService.getData
GetData(ls) ==
  IF Len(ls) = 0 THEN [scripts |-> <<>>, history |-> <<>>]
  ELSE JsonParse(ls[1])

\* A mutation of the merge: the stored object is replaced, not merged into.
SpreadDataOnly(currentData, data) == data

\* { ...currentData, ...data }
SpreadMerge(currentData, data) ==
  [k \in DOMAIN currentData \cup DOMAIN data |->
     IF k \in DOMAIN data THEN data[k] ELSE currentData[k]]

\* storageService.saveData, when setItem succeeds: the new localStorage.
SaveData(ls, data) == <<JsonStringify(SpreadMerge(GetData(ls), data))>>

\* data.scripts || []
ScriptsOrEmpty(data) == IF "scripts" \in DOMAIN data THEN data.scripts ELSE <<>>

FindIndex(list, id) ==
  IF \E i \in DOMAIN list : list[i].id = id
  THEN (CHOOSE i \in DOMAIN list :
          list[i].id = id /\ \A j \in 1..(i - 1) : list[j].id # id) - 1
  ELSE -1

\* The scripts array storageService.saveScript passes to saveData.
UpsertScript(list, script) ==
  LET index == FindIndex(list, script.id)
  IN  IF index >= 0 THEN [list EXCEPT ![index + 1] = script]
      ELSE <<script>> \o list

\* The scripts array storageService.deleteScript passes to saveData.
RemoveScript(list, scriptId) == SelectSeq(list, LAMBDA s : s.id # scriptId)

---------------------------------------------------------------------------
(* The App component: state after construction *)

\* A script and a full-but-one history left in localStorage by an earlier
\* page load of the same program.
StoredScript ==
  [id |-> "s1", title |-> "Untitled Script", content |-> "<p>a</p>",
   lastModified |-> 0]

StoredItem(id) ==
  [id |-> id, original |-> <<"a">>, translated |-> <<"x">>,
   timestamp |-> id, direction |-> "HI_TO_EN"]

\* Most recent first: the head has the largest id, the tail has id 1.
StoredHistory(n) == [i \in 1..n |-> StoredItem(n + 1 - i)]

\* localStorage as an earlier page load left it, one short of the cap.
EarlierStore ==
  <<JsonStringify([scripts |-> <<StoredScript>>,
                   history |-> StoredHistory(HistoryCap - 1)])>>

InitFrom(stored) ==
  /\ inputText = <<>>
  /\ outputText = <<>>
  /\ direction = "HI_TO_EN"
  /\ status = "IDLE"
  /\ history = <<>>
  /\ toasts = {}
  /\ scripts = <<>>
  /\ storage = stored
  /\ runs = <<>>
  /\ mounted = FALSE
  /\ crashed = FALSE
  /\ storageFull = FALSE
  /\ nextId = Len(GetData(storage).history) + 1
  /\ started = 0
  /\ remoteCalls = 0
  /\ outBy = 0
  /\ threw = "none"
  /\ arg = [op |-> "none", val |-> <<>>]
  /\ currentScript = <<>>

\* A first visit: nothing is stored.
Init == InitFrom(<<>>)

\* The user can act on the page: it is mounted and React has not torn it down.
Live == mounted /\ ~crashed

---------------------------------------------------------------------------
(* Effects *)

\* A mutation of the history effect: it saves nothing.
SaveHistoryEffectSkipped(h) ==
  /\ storage' = storage
  /\ crashed' = crashed
  /\ threw' = threw

\* useEffect(() => { if (history.length > 0) saveData({ history }) }, [history])
\* run for the history h the step has set.  An exception in an effect unmounts
\* the component tree.
SaveHistoryEffect(h) ==
  IF Len(h) > 0
  THEN IF storageFull
       THEN /\ storage' = storage
            /\ crashed' = TRUE
            /\ threw' = "effect"
       ELSE /\ storage' = SaveData(storage, [history |-> h])
            /\ crashed' = crashed
            /\ threw' = threw
  ELSE /\ storage' = storage
       /\ crashed' = crashed
       /\ threw' = threw

\* loadData, run by the mount effect, then the history effect.
LoadData ==
  /\ ~mounted
  /\ ~crashed
  /\ LET data == GetData(storage)
     IN  /\ history' = IF "history" \in DOMAIN data THEN data.history ELSE history
         /\ scripts' = IF "scripts" \in DOMAIN data THEN data.scripts ELSE scripts
  /\ SaveHistoryEffect(history')
  /\ mounted' = TRUE
  /\ UNCHANGED <<inputText, outputText, direction, status, toasts, runs,
                 storageFull, nextId, started, remoteCalls, outBy, arg,
                 currentScript>>

---------------------------------------------------------------------------
(* handleTranslate *)

\* isProcessing   (App.tsx:382)
isProcessing == status = "LOADING" \/ status = "STREAMING"

\* addToast: the toast is on screen until its timer removes it.
AddToast(t) == toasts \cup {t}

\* setStatus(LOADING) ... setStatus(STREAMING): the calls handleTranslate
\* makes before its first await, in order.
SetsBeforeAwait == <<"LOADING", "STREAMING">>

\* A mutation of the selection: the same instruction for both directions.
SystemInstructionFixed(dir) == "SYSTEM_INSTRUCTION_HI_TO_EN"

\* direction === 'HI_TO_EN' ? SYSTEM_INSTRUCTION_HI_TO_EN
\*                          : SYSTEM_INSTRUCTION_EN_TO_HI
SystemInstruction(dir) ==
  IF dir = "HI_TO_EN" THEN "SYSTEM_INSTRUCTION_HI_TO_EN"
  ELSE "SYSTEM_INSTRUCTION_EN_TO_HI"

\* config.systemInstruction of the generateContentStream call the generator
\* makes, "none" when it returns before making one.
InstructionPassed(text, dir) ==
  IF SourceRejects(text) THEN "none" ELSE SystemInstruction(dir)

\* The state of a run that has reached its first await: status was set to
\* LOADING and then STREAMING, '' was published, the generator was created
\* and asked for its first fragment, which issues the remote call unless the
\* generator returns at once.
NewRun(text, dir) ==
  [text |-> text, dir |-> dir, acc |-> <<>>, yielded |-> <<>>,
   published |-> <<>>, pubs |-> 1, chunks |-> 0,
   sets |-> SetsBeforeAwait,
   remote |-> ~SourceRejects(text),
   instruction |-> InstructionPassed(text, dir), pc |-> "streaming"]

\* A run that has returned: its locals are gone, how it ended is kept.
Finished(how) ==
  [text |-> <<>>, dir |-> "HI_TO_EN", acc |-> <<>>, yielded |-> <<>>,
   published |-> <<>>, pubs |-> 0, chunks |-> 0, sets |-> <<>>,
   remote |-> FALSE, instruction |-> "none", pc |-> how]

\* The validation branch of handleTranslate.
RejectBlank ==
  /\ toasts' = AddToast(ValidationToast)
  /\ UNCHANGED <<inputText, outputText, direction, status, history, scripts,
                 storage, runs, mounted, crashed, storageFull, nextId,
                 started, remoteCalls, outBy, threw, arg, currentScript>>

\* handleTranslate from its start to its first await.
StartRun ==
  /\ started < MaxStarts
  /\ status' = SetsBeforeAwait[Len(SetsBeforeAwait)]
  /\ outputText' = <<>>
  /\ runs' = Append(runs, NewRun(inputText, direction))
  /\ outBy' = Len(runs) + 1
  /\ started' = started + 1
  /\ remoteCalls' = IF SourceRejects(inputText) THEN remoteCalls
                    ELSE remoteCalls + 1
  /\ UNCHANGED <<inputText, direction, history, toasts, scripts, storage,
                 mounted, crashed, storageFull, nextId, threw, arg,
                 currentScript>>

HandleTranslate ==
  IF FailsValidation(inputText) THEN RejectBlank ELSE StartRun

\* The desktop button: disabled={isProcessing || !inputText.trim()}
TranslateDesktop ==
  /\ Live
  /\ ~(isProcessing \/ FailsValidation(inputText))
  /\ HandleTranslate

\* The mobile button carries no disabled attribute.
TranslateMobile ==
  /\ Live
  /\ HandleTranslate

\* Mutations of the accumulation: the chunk put in front, and the chunk alone.
AccumulateInFront(acc, chunk) == chunk \o acc

AccumulateLatest(acc, chunk) == chunk

\* accumulatedText += chunk
Accumulate(acc, chunk) == acc \o chunk

\* A chunk of the response reaches the generator.  One with text is yielded
\* to the loop of handleTranslate, which publishes the accumulated text; one
\* without is skipped.
ChunkArrives(r, c) ==
  /\ Live
  /\ runs[r].pc = "streaming"
  /\ runs[r].remote
  /\ runs[r].chunks < MaxChunks
  /\ IF c # <<>>
     THEN LET acc == Accumulate(runs[r].acc, c)
          IN  /\ runs' = [runs EXCEPT ![r].acc = acc,
                                      ![r].yielded = Append(@, c),
                                      ![r].published = acc,
                                      ![r].pubs = @ + 1,
                                      ![r].chunks = @ + 1]
              /\ outputText' = acc
              /\ outBy' = r
     ELSE /\ runs' = [runs EXCEPT ![r].chunks = @ + 1]
          /\ UNCHANGED <<outputText, outBy>>
  /\ UNCHANGED <<inputText, direction, status, history, toasts, scripts,
                 storage, mounted, crashed, storageFull, nextId, started,
                 remoteCalls, threw, arg, currentScript>>

\* A mutation of the item: built from the state at completion instead of
\* the values the run was invoked with.
NewItemFromState(run, id, now) ==
  [id |-> id, original |-> inputText, translated |-> outputText,
   timestamp |-> now, direction |-> direction]

\* The TranslationHistoryItem handleTranslate builds   (App.tsx:328-331)
NewItem(run, id, now) ==
  [id |-> id, original |-> run.text, translated |-> run.acc,
   timestamp |-> now, direction |-> run.dir]

\* A mutation of the append: the list is not cut.
PrependUncapped(newItem, prev) == <<newItem>> \o prev

\* [newItem, ...prev].slice(0, 50)
PrependCapped(newItem, prev) == SliceFromStart(<<newItem>> \o prev, HistoryCap)

\* A mutation of the end of a run: a run that received no text leaves no item.
StreamEndsSkippingEmpty(r) ==
  /\ Live
  /\ runs[r].pc = "streaming"
  /\ status' = "SUCCESS"
  /\ history' = IF runs[r].acc = <<>> THEN history
                ELSE PrependCapped(NewItem(runs[r], nextId, nextId), history)
  /\ nextId' = nextId + 1
  /\ runs' = [runs EXCEPT ![r] = Finished("succeeded")]
  /\ SaveHistoryEffect(history')
  /\ UNCHANGED <<inputText, outputText, direction, toasts, scripts, mounted,
                 storageFull, started, remoteCalls, outBy, arg, currentScript>>

\* The stream ends: the loop exits, status becomes SUCCESS and the item is
\* put at the head of the history; the history effect then saves it.
StreamEnds(r) ==
  /\ Live
  /\ runs[r].pc = "streaming"
  /\ status' = "SUCCESS"
  /\ history' = PrependCapped(NewItem(runs[r], nextId, nextId), history)
  /\ nextId' = nextId + 1
  /\ runs' = [runs EXCEPT ![r] = Finished("succeeded")]
  /\ SaveHistoryEffect(history')
  /\ UNCHANGED <<inputText, outputText, direction, toasts, scripts, mounted,
                 storageFull, started, remoteCalls, outBy, arg, currentScript>>

\* A mutation of the catch block: it also clears the published text.
StreamFailsDiscarding(r) ==
  /\ Live
  /\ runs[r].pc = "streaming"
  /\ runs[r].remote
  /\ status' = "ERROR"
  /\ toasts' = AddToast(FailureToast)
  /\ outputText' = <<>>
  /\ runs' = [runs EXCEPT ![r] = Finished("failed")]
  /\ UNCHANGED <<inputText, direction, history, scripts, storage,
                 mounted, crashed, storageFull, nextId, started, remoteCalls,
                 outBy, threw, arg, currentScript>>

\* A mutation of the catch block: the call is made again instead of giving up.
StreamFailsRetrying(r) ==
  /\ Live
  /\ runs[r].pc = "streaming"
  /\ runs[r].remote
  /\ remoteCalls <= MaxStarts
  /\ remoteCalls' = remoteCalls + 1
  /\ runs' = [runs EXCEPT ![r].acc = <<>>, ![r].yielded = <<>>,
                          ![r].chunks = 0]
  /\ UNCHANGED <<inputText, outputText, direction, status, history, toasts,
                 scripts, storage, mounted, crashed, storageFull, nextId,
                 started, outBy, threw, arg, currentScript>>

\* The remote call or the response stream fails: the generator throws,
\* handleTranslate's catch sets ERROR and raises the failure toast.
StreamFails(r) ==
  /\ Live
  /\ runs[r].pc = "streaming"
  /\ runs[r].remote
  /\ status' = "ERROR"
  /\ toasts' = AddToast(FailureToast)
  /\ runs' = [runs EXCEPT ![r] = Finished("failed")]
  /\ UNCHANGED <<inputText, outputText, direction, history, scripts, storage,
                 mounted, crashed, storageFull, nextId, started, remoteCalls,
                 outBy, threw, arg, currentScript>>

---------------------------------------------------------------------------
(* The other handlers of the translator view *)

\* prev === 'HI_TO_EN' ? 'EN_TO_HI' : 'HI_TO_EN'
Toggle(prev) == IF prev = "HI_TO_EN" THEN "EN_TO_HI" ELSE "HI_TO_EN"

\* if (!outputText && !temp) IDLE else SUCCESS
StatusAfterSwap(out, temp) ==
  IF out = <<>> /\ temp = <<>> THEN "IDLE" ELSE "SUCCESS"

HandleSwap ==
  /\ Live
  /\ direction' = Toggle(direction)
  /\ inputText' = outputText
  /\ outputText' = inputText
  /\ status' = StatusAfterSwap(outputText, inputText)
  /\ outBy' = 0
  /\ UNCHANGED <<history, toasts, scripts, storage, runs, mounted, crashed,
                 storageFull, nextId, started, remoteCalls, threw, arg,
                 currentScript>>

\* The textarea's onChange, and the clear-input button when t is empty.
EditInput(t) ==
  /\ Live
  /\ t # inputText
  /\ inputText' = t
  /\ UNCHANGED <<outputText, direction, status, history, toasts, scripts,
                 storage, runs, mounted, crashed, storageFull, nextId,
                 started, remoteCalls, outBy, threw, arg, currentScript>>

\* Clicking an entry of the history sidebar.
SelectHistory(i) ==
  /\ Live
  /\ i \in DOMAIN history
  /\ inputText' = history[i].original
  /\ outputText' = history[i].translated
  /\ outBy' = 0
  /\ UNCHANGED <<direction, status, history, toasts, scripts, storage, runs,
                 mounted, crashed, storageFull, nextId, started, remoteCalls,
                 threw, arg, currentScript>>

\* A mutation of the clear button: nothing is saved, the effect is relied on.
SaveClearedSkipped(ls) == ls

\* storageService.saveData({ history: [] }) of the clear-history button.
SaveCleared(ls) == SaveData(ls, [history |-> <<>>])

\* The clear-history button: setHistory([]); saveData({ history: [] }).
\* The history effect then sees an empty list and saves nothing.

ClearHistory ==
  /\ Live
  /\ history' = <<>>
  /\ IF storageFull
     THEN /\ storage' = storage
          /\ threw' = "handler"
     ELSE /\ storage' = SaveCleared(storage)
          /\ threw' = threw
  /\ UNCHANGED <<inputText, outputText, direction, status, toasts, scripts,
                 runs, mounted, crashed, storageFull, nextId, started,
                 remoteCalls, outBy, arg, currentScript>>

\* The timer addToast sets removes the toast after three seconds.
ExpireToast(t) ==
  /\ Live
  /\ t \in toasts
  /\ toasts' = toasts \ {t}
  /\ UNCHANGED <<inputText, outputText, direction, status, history, scripts,
                 storage, runs, mounted, crashed, storageFull, nextId,
                 started, remoteCalls, outBy, threw, arg, currentScript>>

\* The page is loaded again: the component is constructed afresh, streams
\* in flight are abandoned, localStorage stays.
Reload ==
  /\ mounted
  /\ inputText' = <<>>
  /\ outputText' = <<>>
  /\ direction' = "HI_TO_EN"
  /\ status' = "IDLE"
  /\ history' = <<>>
  /\ toasts' = {}
  /\ scripts' = <<>>
  /\ runs' = <<>>
  /\ mounted' = FALSE
  /\ crashed' = FALSE
  /\ outBy' = 0
  /\ threw' = "none"
  /\ currentScript' = <<>>
  /\ UNCHANGED <<storage, storageFull, nextId, started, remoteCalls, arg>>

Next ==
  \/ LoadData
  \/ TranslateDesktop
  \/ TranslateMobile
  \/ \E r \in DOMAIN runs : \E c \in ChunkTexts(runs[r].yielded) :
        ChunkArrives(r, c)
  \/ \E r \in DOMAIN runs : StreamEnds(r)
  \/ \E r \in DOMAIN runs : StreamFails(r)
  \/ HandleSwap
  \/ \E t \in Typed : EditInput(t)
  \/ \E i \in DOMAIN history : SelectHistory(i)
  \/ ClearHistory
  \/ \E t \in toasts : ExpireToast(t)
  \/ Reload

Spec == Init /\ [][Next]_vars

---------------------------------------------------------------------------
(* A later visit, with the history an earlier one left one short of the cap: *)
(* the translations, clears and loads that change the history.              *)

InitEarlier == InitFrom(EarlierStore)

NextHistory ==
  \/ LoadData
  \/ TranslateDesktop
  \/ TranslateMobile
  \/ \E r \in DOMAIN runs : \E c \in ChunkTexts(runs[r].yielded) :
        ChunkArrives(r, c)
  \/ \E r \in DOMAIN runs : StreamEnds(r)
  \/ \E t \in Typed : EditInput(t)
  \/ ClearHistory
  \/ Reload

SpecHistory == InitEarlier /\ [][NextHistory]_vars

---------------------------------------------------------------------------
(* One visit of the translator view, with a source that keeps its promise:   *)
(* every response delivers finitely many chunks and then ends or fails.      *)

NextVisit ==
  \/ LoadData
  \/ TranslateDesktop
  \/ TranslateMobile
  \/ \E r \in DOMAIN runs : \E c \in ChunkTexts(runs[r].yielded) :
        ChunkArrives(r, c)
  \/ \E r \in DOMAIN runs : StreamEnds(r)
  \/ \E r \in DOMAIN runs : StreamFails(r)
  \/ HandleSwap
  \/ \E t \in Typed : EditInput(t)

\* The for-await loop of run r is resumed for the last time: the response
\* has ended or has thrown.
RunReturns(r) == r \in DOMAIN runs /\ (StreamEnds(r) \/ StreamFails(r))

\* The mount effect runs, and every response comes to its end.
SpecVisit ==
  /\ Init
  /\ [][NextVisit]_vars
  /\ WF_vars(LoadData)
  /\ \A r \in 1..MaxStarts : WF_vars(RunReturns(r))

---------------------------------------------------------------------------
(* The same page when localStorage can run out of room *)

\* Other pages of the origin fill the quota: setItem throws from now on.
StorageFills ==
  /\ ~storageFull
  /\ storageFull' = TRUE
  /\ UNCHANGED <<inputText, outputText, direction, status, history, toasts,
                 scripts, storage, runs, mounted, crashed, nextId, started,
                 remoteCalls, outBy, threw, arg, currentScript>>

NextQuota == Next \/ StorageFills

SpecQuota == Init /\ [][NextQuota]_vars

---------------------------------------------------------------------------
(* The script editor view *)

\* The titles the user gives a script in the editor's title field.
Titles == {"Untitled Script", "Intro"}

\* createNewScript: the new script is opened in the editor, not yet listed.
CreateNewScript ==
  /\ Live
  /\ nextId <= MaxScripts
  /\ currentScript' =
       <<[id |-> nextId, title |-> "Untitled Script",
          content |-> "<p>Start writing your script here...</p>",
          lastModified |-> nextId]>>
  /\ nextId' = nextId + 1
  /\ UNCHANGED <<inputText, outputText, direction, status, history, toasts,
                 scripts, storage, runs, mounted, crashed, storageFull,
                 started, remoteCalls, outBy, threw, arg>>

\* Clicking a script of the sidebar opens it.
SelectScript(i) ==
  /\ Live
  /\ i \in DOMAIN scripts
  /\ currentScript' = <<scripts[i]>>
  /\ UNCHANGED <<inputText, outputText, direction, status, history, toasts,
                 scripts, storage, runs, mounted, crashed, storageFull, nextId,
                 started, remoteCalls, outBy, threw, arg>>

\* The editor's onSave argument: { ...script, title, content, lastModified }
UpdatedScript(script, title, now) ==
  [script EXCEPT !.title = title, !.lastModified = now]

\* A mutation of the list update: the saved script is always put in front.
UpsertAlwaysInFront(prev, updatedScript) == <<updatedScript>> \o prev

\* The updater saveScript passes to setScripts.
UpsertInMemory(prev, updatedScript) ==
  LET idx == FindIndex(prev, updatedScript.id)
  IN  IF idx >= 0 THEN [prev EXCEPT ![idx + 1] = updatedScript]
      ELSE <<updatedScript>> \o prev

\* saveScript, called by the editor with the open script under the title the
\* user typed.  When the write throws, setScripts is not reached.
SaveScript(title) ==
  /\ Live
  /\ currentScript # <<>>
  /\ LET updatedScript == UpdatedScript(currentScript[1], title, nextId)
     IN  IF storageFull
         THEN /\ threw' = "handler"
              /\ UNCHANGED <<storage, scripts>>
         ELSE /\ storage' = SaveData(storage,
                   [scripts |-> UpsertScript(ScriptsOrEmpty(GetData(storage)),
                                             updatedScript)])
              /\ scripts' = UpsertInMemory(scripts, updatedScript)
              /\ threw' = threw
  /\ UNCHANGED <<inputText, outputText, direction, status, history, toasts,
                 runs, mounted, crashed, storageFull, nextId, started,
                 remoteCalls, outBy, arg, currentScript>>

DeletedToast == [message |-> "Script deleted", type |-> "info"]

\* deleteScript, the user having confirmed.  When the write throws, nothing
\* after it is reached.
DeleteScript(scriptId) ==
  /\ Live
  /\ scriptId \in Ids(scripts)
  /\ IF storageFull
     THEN /\ threw' = "handler"
          /\ UNCHANGED <<storage, scripts, currentScript, toasts>>
     ELSE /\ storage' = SaveData(storage,
               [scripts |-> RemoveScript(ScriptsOrEmpty(GetData(storage)),
                                         scriptId)])
          /\ scripts' = RemoveScript(scripts, scriptId)
          /\ currentScript' =
               IF currentScript # <<>> /\ currentScript[1].id = scriptId
               THEN <<>> ELSE currentScript
          /\ toasts' = AddToast(DeletedToast)
          /\ threw' = threw
  /\ UNCHANGED <<inputText, outputText, direction, status, history, runs,
                 mounted, crashed, storageFull, nextId, started, remoteCalls,
                 outBy, arg>>

\* The editor's back button.
CloseEditor ==
  /\ Live
  /\ currentScript # <<>>
  /\ currentScript' = <<>>
  /\ UNCHANGED <<inputText, outputText, direction, status, history, toasts,
                 scripts, storage, runs, mounted, crashed, storageFull, nextId,
                 started, remoteCalls, outBy, threw, arg>>

NextScripts ==
  \/ LoadData
  \/ CreateNewScript
  \/ \E i \in DOMAIN scripts : SelectScript(i)
  \/ \E title \in Titles : SaveScript(title)
  \/ \E scriptId \in Ids(scripts) : DeleteScript(scriptId)
  \/ CloseEditor
  \/ \E t \in toasts : ExpireToast(t)
  \/ Reload

SpecScripts == Init /\ [][NextScripts]_vars

---------------------------------------------------------------------------
(* storageService called directly, on its own *)

ScriptA == [id |-> "s1", title |-> "Intro", content |-> "<p>a</p>",
            lastModified |-> 1]

ScriptARetitled == [id |-> "s1", title |-> "Intro v2", content |-> "<p>a</p>",
                    lastModified |-> 2]

ScriptB == [id |-> "s2", title |-> "Outro", content |-> "<p>b</p>",
            lastModified |-> 1]

ScriptPool == {ScriptA, ScriptARetitled, ScriptB}

ScriptLists == UNION {[1..n -> ScriptPool] : n \in 0..MaxScripts}

HistoryLists == {StoredHistory(n) : n \in 0..2}

\* The arguments of saveData: { scripts?, history? }
DataArgs ==
  {<<>>} \cup {[scripts |-> sl] : sl \in ScriptLists}
         \cup {[history |-> hl] : hl \in HistoryLists}
         \cup {[scripts |-> sl, history |-> hl] :
                 sl \in ScriptLists, hl \in HistoryLists}

AppUntouched ==
  UNCHANGED <<inputText, outputText, direction, status, history, toasts,
              scripts, runs, mounted, crashed, storageFull, nextId, started,
              remoteCalls, outBy, threw, currentScript>>

SvcSaveData(data) ==
  /\ storage' = SaveData(storage, data)
  /\ arg' = [op |-> "saveData", val |-> data]
  /\ AppUntouched

SvcSaveScript(script) ==
  /\ LET list == UpsertScript(ScriptsOrEmpty(GetData(storage)), script)
     IN  /\ Len(list) <= MaxScripts
         /\ storage' = SaveData(storage, [scripts |-> list])
  /\ arg' = [op |-> "saveScript", val |-> script]
  /\ AppUntouched

SvcDeleteScript(scriptId) ==
  /\ storage' = SaveData(storage,
        [scripts |-> RemoveScript(ScriptsOrEmpty(GetData(storage)), scriptId)])
  /\ arg' = [op |-> "deleteScript", val |-> scriptId]
  /\ AppUntouched

NextStorage ==
  \/ \E data \in DataArgs : SvcSaveData(data)
  \/ \E script \in ScriptPool : SvcSaveScript(script)
  \/ \E scriptId \in {"s1", "s2"} : SvcDeleteScript(scriptId)

SpecStorage == Init /\ [][NextStorage]_vars

---------------------------------------------------------------------------
(* Properties *)

\* Empty or whitespace-only, in the words of the specification.
IsBlank(text) == \A i \in DOMAIN text : text[i] = " "

Streaming == {r \in DOMAIN runs : runs[r].pc = "streaming"}

\* The stored object holds key k with value v.
Holds(obj, k, v) == k \in DOMAIN obj /\ obj[k] = v

\* C1: a run on non-blank text whose source yields at least one fragment and
\* then ends without error sets the status to LOADING, STREAMING and SUCCESS
\* in that order, and the last text it published is the concatenation of the
\* yielded fragments in yield order; that text is the output text unless
\* another handler has written the output since.
C1_SuccessfulRun ==
  [][\A r \in DOMAIN runs :
       (StreamEnds(r) /\ Len(runs[r].yielded) >= 1) =>
          /\ ~IsBlank(runs[r].text)
          /\ Append(runs[r].sets, status') = <<"LOADING", "STREAMING", "SUCCESS">>
          /\ runs[r].published = Concat(runs[r].yielded)
          /\ (outBy = r => outputText' = Concat(runs[r].yielded))]_vars

\* C1 witness: the first run of a visit has ended after two fragments.
C1_Witness ==
  /\ started = 1
  /\ Len(runs) = 1
  /\ runs[1].pc = "succeeded"
  /\ status = "SUCCESS"
  /\ outBy = 1
  /\ outputText = <<"x", "y">>

\* C2: when the source fails after yielding k >= 0 fragments, the run ends
\* with status ERROR, the text it published last is still the concatenation
\* of those fragments (and is the output text unless another handler wrote
\* it since), and the run leaves the history and the stored blob as they were.
C2_FailedRun ==
  [][\A r \in DOMAIN runs :
       StreamFails(r) =>
          /\ status' = "ERROR"
          /\ runs[r].published = Concat(runs[r].yielded)
          /\ (outBy = r => outputText' = Concat(runs[r].yielded))
          /\ history' = history
          /\ storage' = storage]_vars

\* C2 witness: a run failed after two fragments, which are still shown.
C2_Witness ==
  /\ started = 1
  /\ Len(runs) = 1
  /\ runs[1].pc = "failed"
  /\ status = "ERROR"
  /\ outputText = <<"x", "y">>
  /\ history = <<>>
  /\ FailureToast \in toasts

\* C3: invoking translate on empty or whitespace-only input leaves the status
\* as it was, starts no run, issues no call to the source or the remote
\* model, and only raises the validation toast.
C3_BlankRejected ==
  [][(IsBlank(inputText) /\ (TranslateMobile \/ TranslateDesktop)) =>
        /\ status' = status
        /\ runs' = runs
        /\ started' = started
        /\ remoteCalls' = remoteCalls
        /\ toasts' = toasts \cup {ValidationToast}
        /\ UNCHANGED <<inputText, outputText, direction, history, storage>>]_vars

\* C3 witness: translate was invoked on whitespace-only input from IDLE.
C3_Witness ==
  /\ inputText = <<" ">>
  /\ ValidationToast \in toasts
  /\ status = "IDLE"
  /\ started = 0
  /\ remoteCalls = 0

\* C4: at most one translation stream is in flight in every reachable state.
C4_AtMostOneStream == Cardinality(Streaming) <= 1

\* C5: the history never holds more than 50 items, and appending to a full
\* list puts the new item at the head, drops exactly the tail item and keeps
\* the other 49 in their order.
C5_HistoryCapped ==
  [][/\ Len(history') <= HistoryCap
     /\ \A r \in DOMAIN runs :
          (StreamEnds(r) /\ Len(history) = HistoryCap) =>
             /\ Len(history') = HistoryCap
             /\ history'[1].id \notin Ids(history)
             /\ \A i \in 1..(HistoryCap - 1) : history'[i + 1] = history[i]]_vars

\* C5 witness: a full history took one more item and lost its oldest.
C5_Witness ==
  /\ Len(history) = HistoryCap
  /\ history[1].id = HistoryCap + 1
  /\ history[HistoryCap].id = 2

\* C6: a run that ends without error puts exactly one new item at the head of
\* the history, holding the text and direction the run was invoked with and
\* the concatenation of its fragments, whatever the input, output and
\* direction are by then; no step changes an item already in the history, and
\* only a run's end or a load brings in a new one.
C6_OneItemPerRun ==
  [][/\ \A r \in DOMAIN runs :
          StreamEnds(r) =>
             /\ history'[1].original = runs[r].text
             /\ history'[1].direction = runs[r].dir
             /\ history'[1].translated = Concat(runs[r].yielded)
             /\ history'[1].id \notin Ids(history)
             /\ SubSeq(history', 2, Len(history'))
                  = SliceFromStart(history, HistoryCap - 1)
     /\ \A i \in DOMAIN history' : \A j \in DOMAIN history :
          history'[i].id = history[j].id => history'[i] = history[j]
     /\ ~(Ids(history') \subseteq Ids(history)) =>
          (LoadData \/ \E r \in DOMAIN runs : StreamEnds(r))]_vars

\* C6 witness: the one run of the visit has ended, and the item it left
\* differs from the present input, output and direction.
C6_Witness ==
  /\ started = 1
  /\ Len(runs) = 1
  /\ runs[1].pc = "succeeded"
  /\ Len(history) = 1
  /\ history[1].original = <<"a">>
  /\ history[1].translated = <<"x", "y">>
  /\ history[1].direction = "HI_TO_EN"
  /\ inputText = <<"x">>
  /\ direction = "EN_TO_HI"

\* C7: each arrival of a fragment publishes once, and the output text is then
\* the concatenation of the fragments the run has received so far, in order;
\* a chunk without text publishes nothing.
C7_OrderedPublication ==
  [][\A r \in DOMAIN runs : \A c \in ChunkTexts(runs[r].yielded) :
       ChunkArrives(r, c) =>
          IF c # <<>>
          THEN /\ runs'[r].yielded = Append(runs[r].yielded, c)
               /\ outputText' = Concat(runs'[r].yielded)
               /\ runs'[r].pubs = runs[r].pubs + 1
          ELSE /\ runs'[r].yielded = runs[r].yielded
               /\ outputText' = outputText
               /\ runs'[r].pubs = runs[r].pubs]_vars

\* C7 witness: a run's second fragment has just been published although the
\* user swapped the panels after the first.
C7_Witness ==
  /\ 1 \in Streaming
  /\ runs[1].yielded = <<<<"x">>, <<"y">>>>
  /\ outBy = 1
  /\ outputText = <<"x", "y">>
  /\ inputText = <<"x">>
  /\ direction = "EN_TO_HI"

\* C8: clearing empties the history in memory, and the stored blob then holds
\* an empty history and the scripts it held before; a load from a blob with
\* an empty history sets an empty history.
C8_ClearPersists ==
  [][/\ ClearHistory =>
          /\ history' = <<>>
          /\ Len(storage') = 1
          /\ Holds(GetData(storage'), "history", <<>>)
          /\ Holds(GetData(storage'), "scripts", GetData(storage).scripts)
     /\ (LoadData /\ Holds(GetData(storage), "history", <<>>)) =>
          history' = <<>>]_vars

\* C8 witness: the stored history of 49 items was cleared and the page
\* loaded again: the history is empty, the stored script is still there.
C8_Witness ==
  /\ mounted
  /\ history = <<>>
  /\ scripts = <<StoredScript>>
  /\ Len(storage) = 1
  /\ GetData(storage).history = <<>>
  /\ GetData(storage).scripts = <<StoredScript>>

\* C9: saveData stores the fields it is given and leaves the others as they
\* were stored: after saveData({scripts: X}) getData returns scripts X and the
\* history of before, and after saveData({history: H}) history H and the
\* scripts of before.
C9_SaveMerges ==
  [][(arg'.op = "saveData" /\ SvcSaveData(arg'.val)) =>
        \A k \in {"scripts", "history"} :
           Holds(GetData(storage'), k,
                 IF k \in DOMAIN arg'.val THEN arg'.val[k]
                 ELSE GetData(storage)[k])]_vars

\* C9 witness: scripts were saved over a stored history, which is still there.
C9_Witness ==
  /\ arg.op = "saveData"
  /\ DOMAIN arg.val = {"scripts"}
  /\ GetData(storage).scripts = <<ScriptA>>
  /\ GetData(storage).history = StoredHistory(2)

\* The error toasts on screen that report something other than a failed
\* translation or a blank input.
PersistenceToasts ==
  {t \in toasts : t.type = "error" /\ t # FailureToast /\ t # ValidationToast}

\* C10: a failed storage write raises an error toast that is not the
\* translation-failure toast and does not take the page down.

C10_WriteFailureSurfaced ==
  [][threw' # threw =>
        /\ threw' = "none" \/ PersistenceToasts' # {}
        /\ ~crashed']_vars

\* C11: getData on empty storage returns empty scripts and an empty history,
\* and whatever saveData, saveScript and deleteScript have stored since, the
\* blob getData reads back has both a scripts and a history sequence.
C11_BothFieldsStored ==
  /\ GetData(<<>>) = [scripts |-> <<>>, history |-> <<>>]
  /\ LET data == GetData(storage)
     IN  \A k \in {"scripts", "history"} :
            /\ k \in DOMAIN data
            /\ DOMAIN data[k] = 1..Len(data[k])

\* C11 witness: saveData({}) wrote the first blob, and it holds both fields.
C11_Witness ==
  /\ arg.op = "saveData"
  /\ arg.val = <<>>
  /\ Len(storage) = 1
  /\ GetData(storage) = [scripts |-> <<>>, history |-> <<>>]

\* C12: the instruction passed to the model depends on the direction alone:
\* a translation passes the instruction of the direction it is invoked with,
\* whatever the text; the two directions have different instructions, so two
\* runs in flight have the same instruction exactly when they have the same
\* direction; and a swap changes the direction to the other one, so that a
\* translation started next would pass the other instruction.
C12_ProfileByDirection ==
  [][/\ (started' = started + 1) =>
          /\ TranslateDesktop \/ TranslateMobile
          /\ runs'[Len(runs')].instruction = SystemInstruction(direction)
          /\ runs'[Len(runs')].instruction
               \in {"SYSTEM_INSTRUCTION_HI_TO_EN", "SYSTEM_INSTRUCTION_EN_TO_HI"}
     /\ \A r \in Streaming : \A q \in Streaming :
          (runs[r].instruction = runs[q].instruction)
             <=> (runs[r].dir = runs[q].dir)
     /\ HandleSwap =>
          /\ direction' # direction
          /\ direction' \in {"HI_TO_EN", "EN_TO_HI"}
          /\ SystemInstruction(direction') # SystemInstruction(direction)
          /\ direction' = Toggle(direction)]_vars

\* C12 witness: two runs in flight on the same text, started before and after
\* a swap, carry different instructions.
C12_Witness ==
  /\ Streaming = {1, 2}
  /\ runs[1].text = runs[2].text
  /\ runs[1].dir = "HI_TO_EN"
  /\ runs[2].dir = "EN_TO_HI"
  /\ runs[1].instruction = "SYSTEM_INSTRUCTION_HI_TO_EN"
  /\ runs[2].instruction = "SYSTEM_INSTRUCTION_EN_TO_HI"

\* C13: the status becomes STREAMING only in the step in which the first
\* fragment of a run arrives, and a run that fails before it has yielded a
\* fragment has never set the status to STREAMING.
C13_StreamingOnFirstFragment ==
  [][/\ (status' = "STREAMING" /\ status # "STREAMING") =>
          \E r \in Streaming : \E c \in ChunkTexts(runs[r].yielded) :
             /\ c # <<>>
             /\ runs[r].yielded = <<>>
             /\ ChunkArrives(r, c)
     /\ \A r \in DOMAIN runs :
          (StreamFails(r) /\ runs[r].yielded = <<>>) =>
             \A i \in DOMAIN runs[r].sets : runs[r].sets[i] # "STREAMING"]_vars

\* C14: whenever the status is SUCCESS a run of this page load has ended
\* without error and no stream is in flight; a swap during a stream or after
\* a failure does not set SUCCESS; and SUCCESS and ERROR are left only by
\* starting a translation (or by loading the page again).
C14_SuccessMeansEnded ==
  [][/\ status' = "SUCCESS" =>
          /\ \E r \in DOMAIN runs' : runs'[r].pc = "succeeded"
          /\ \A r \in DOMAIN runs' : runs'[r].pc # "streaming"
     /\ (HandleSwap /\ (Streaming # {} \/ status = "ERROR")) =>
          status' # "SUCCESS"
     /\ (status \in {"SUCCESS", "ERROR"} /\ status' # status) =>
          (TranslateDesktop \/ TranslateMobile \/ Reload)]_vars

\* C15: every run that has started returns, as succeeded or failed; whenever
\* the status is LOADING or STREAMING it later is SUCCESS or ERROR; once no
\* run is in progress a translation of non-blank input can be started; and
\* the remote model is called only when the user invokes a translation.
C15_RunsTerminate ==
  /\ \A r \in 1..MaxStarts :
        (r \in Streaming)
          ~> (r \in DOMAIN runs /\ runs[r].pc \in {"succeeded", "failed"})
  /\ isProcessing ~> (status \in {"SUCCESS", "ERROR"})
  /\ []((/\ Live
         /\ status \in {"SUCCESS", "ERROR"}
         /\ ~IsBlank(inputText)
         /\ started < MaxStarts) => ENABLED TranslateDesktop)
  /\ [][remoteCalls' # remoteCalls =>
          (TranslateDesktop \/ TranslateMobile)]_vars

\* C15 witness: the first run failed, the user started a second one, and it
\* has succeeded; the remote model was called once for each.
C15_Witness ==
  /\ Len(runs) = 2
  /\ runs[1].pc = "failed"
  /\ runs[2].pc = "succeeded"
  /\ status = "SUCCESS"
  /\ remoteCalls = 2

\* No two entries of the list have the same id.
UniqueIds(list) ==
  \A i \in DOMAIN list : \A j \in DOMAIN list :
     list[i].id = list[j].id => i = j

\* C16: the scripts in memory and the stored scripts never hold an id twice,
\* and are the same list once the page has loaded; saving a script whose id
\* is listed replaces that entry where it is, saving one whose id is not
\* listed puts it at the head, and deleting leaves no entry with the id and
\* the other entries in their order.
C16_ScriptIdsUnique ==
  [][/\ UniqueIds(scripts')
     /\ UniqueIds(GetData(storage').scripts)
     /\ mounted' => scripts' = GetData(storage').scripts
     /\ \A title \in Titles :
          SaveScript(title) =>
             LET saved == UpdatedScript(currentScript[1], title, nextId)
             IN  IF saved.id \in Ids(scripts)
                 THEN /\ Len(scripts') = Len(scripts)
                      /\ \A i \in DOMAIN scripts :
                           scripts'[i] = IF scripts[i].id = saved.id
                                         THEN saved ELSE scripts[i]
                 ELSE scripts' = <<saved>> \o scripts
     /\ \A scriptId \in Ids(scripts) :
          DeleteScript(scriptId) =>
             /\ scriptId \notin Ids(scripts')
             /\ scripts' = SelectSeq(scripts, LAMBDA s : s.id # scriptId)]_vars

\* C16 witness: two scripts were created and saved, and the first one was
\* then saved again under a new title: it is still the second entry, in
\* memory and in the stored blob.
C16_Witness ==
  /\ mounted
  /\ Len(scripts) = 2
  /\ scripts[1].id = 2
  /\ scripts[2].id = 1
  /\ scripts[2].title = "Intro"
  /\ scripts[1].title = "Untitled Script"
  /\ GetData(storage).scripts = scripts

\* C17: once the page has loaded, the history held by the stored blob is the
\* history in memory, item for item and in the same order, after every step.
C17_HistoryPersisted ==
  Live => Holds(GetData(storage), "history", history)

\* C17 witness: a translation succeeded, a later one failed and the panels
\* were swapped; the one item in memory is the one item stored.
C17_Witness ==
  /\ Live
  /\ Len(runs) = 2
  /\ runs[1].pc = "succeeded"
  /\ runs[2].pc = "failed"
  /\ direction = "EN_TO_HI"
  /\ Len(history) = 1
  /\ Len(storage) = 1
  /\ GetData(storage).history = history

\* C18: when the response to non-blank text ends without error and without
\* having yielded a fragment, the status becomes SUCCESS, the text the run
\* published is empty (and is the output text unless another handler wrote
\* it since), and an item with an empty translation is put at the head of the
\* history and stored.
C18_EmptyResponseRecorded ==
  [][\A r \in DOMAIN runs :
       (StreamEnds(r) /\ runs[r].yielded = <<>>) =>
          /\ ~IsBlank(runs[r].text)
          /\ status' = "SUCCESS"
          /\ runs[r].published = <<>>
          /\ (outBy = r => outputText' = <<>>)
          /\ Len(history') = Len(history) + 1
          /\ history'[1].translated = <<>>
          /\ history'[1].original = runs[r].text
          /\ Holds(GetData(storage'), "history", history')]_vars

\* C18 witness: the one run of the visit ended without a fragment and left
\* an item with an empty translation, in memory and in the stored blob.
C18_Witness ==
  /\ Len(runs) = 1
  /\ runs[1].pc = "succeeded"
  /\ status = "SUCCESS"
  /\ outputText = <<>>
  /\ Len(history) = 1
  /\ history[1].original = <<"a">>
  /\ history[1].translated = <<>>
  /\ Len(storage) = 1
  /\ GetData(storage).history[1].translated = <<>>

====
